---- MODULE Spec2Model ----
(***************************************************************************)
(* A model of the file-based module registry of src/registry.py            *)
(* (RegistryClient and the Module descriptor) and of its callers.          *)
(*                                                                         *)
(* The registry is a directory tree.  The model keeps the tree itself: the *)
(* set of directories and the content of every file, addressed by path (a  *)
(* sequence of path components below the registry root).  Every method of  *)
(* RegistryClient is a sequence of filesystem calls; each call is one step *)
(* of a call frame, and a method run to its return is the composition of   *)
(* its steps.                                                              *)
(***************************************************************************)
EXTENDS Naturals, Sequences, FiniteSets, TLC

VARIABLES fs, frame, script, initialized, added, addCalled, partial, onlyInit, ncalls

vars == <<fs, frame, script, initialized, added, addCalled, partial, onlyInit, ncalls>>

(***************************************************************************)
(* Bounds and input universes.                                             *)
(***************************************************************************)
\* The number of init_module, add and delete calls in one behaviour of one
\* client after the other, or of one client that is read by another.
MaxCalls == 3

\* The number of init_module, add and delete calls in one behaviour of two
\* clients that both change the registry.
MaxConcurrentCalls == 2

\* Module names the callers use.
Names == {"a", "b"}

\* Version strings the callers use.  The empty string is the version an
\* unanswered "Please enter the module version" prompt yields
\* (src/add_module.py line 52); it is falsy in `if version:`.
Versions == {"", "10", "2"}

\* The str values the registry sorts (version strings, and module_list lines,
\* each a module name and its line end), in Python's lexicographic order.
StrOrder == <<"", "10", "2", "a\n", "b\n">>

\* The two clients of the registry root.
Procs == {1, 2}

(***************************************************************************)
(* Python values.                                                          *)
(***************************************************************************)
\* None, for a field that holds None or a one-element tuple <<value>>.
None == <<>>

Some(x) == <<x>>

\* bool(x) of an optional str: None and "" are falsy.
TruthyStr(o) == o # None /\ o[1] # ""

\* bool(x) of an optional path string: None and the empty path are falsy.
TruthyPath(o) == o # None /\ o[1] # <<>>

\* bool(version) of a str.
TruthyVersion(version) == version # ""

StrIndex(s) == CHOOSE i \in 1..Len(StrOrder) : StrOrder[i] = s

\* s <= t on str.
StrLeq(s, t) == StrIndex(s) <= StrIndex(t)

RECURSIVE InsertSorted(_, _)
InsertSorted(s, x) ==
    IF s = <<>> THEN <<x>>
    ELSE IF StrLeq(s[Len(s)], x) THEN Append(s, x)
    ELSE Append(InsertSorted(SubSeq(s, 1, Len(s) - 1), x), s[Len(s)])

\* list.sort() of a list of str (a stable insertion of each element in turn).
RECURSIVE SortList(_)
SortList(s) ==
    IF s = <<>> THEN <<>>
    ELSE InsertSorted(SortList(SubSeq(s, 1, Len(s) - 1)), s[Len(s)])

\* list.remove(x) when x is in the list: the first occurrence goes.
RECURSIVE ListRemove(_, _)
ListRemove(s, x) ==
    IF s = <<>> THEN <<>>
    ELSE IF s[1] = x THEN Tail(s)
    ELSE <<s[1]>> \o ListRemove(Tail(s), x)

Range(s) == {s[i] : i \in 1..Len(s)}

(***************************************************************************)
(* Paths (pathlib) and the filesystem calls the registry makes.  A call    *)
(* yields the filesystem after it and the exception it raised ("None" when *)
(* it returned).                                                           *)
(***************************************************************************)
\* Path.joinpath(s): joining the empty string yields the same path.
joinpath(p, s) == IF s = "" THEN p ELSE Append(p, s)

Parent(p) == SubSeq(p, 1, Len(p) - 1)

IsPrefix(p, q) == Len(p) <= Len(q) /\ SubSeq(q, 1, Len(p)) = p

Returned(f) == [fs |-> f, exc |-> "None"]

Raised(f, e) == [fs |-> f, exc |-> e]

\* Path.is_dir()
is_dir(f, p) == p \in f.dirs

\* Path.mkdir(exist_ok=True): an existing directory is no error.
mkdir_exist_ok(f, p) ==
    IF p \in f.dirs THEN Returned(f)
    ELSE IF p \in DOMAIN f.files THEN Raised(f, "FileExistsError")
    ELSE IF Parent(p) \in DOMAIN f.files THEN Raised(f, "NotADirectoryError")
    ELSE IF Parent(p) \notin f.dirs THEN Raised(f, "FileNotFoundError")
    ELSE Returned([f EXCEPT !.dirs = @ \cup {p}])

\* Path.mkdir() with neither parents nor exist_ok.
mkdir(f, p) ==
    IF p \in f.dirs \/ p \in DOMAIN f.files THEN Raised(f, "FileExistsError")
    ELSE IF Parent(p) \in DOMAIN f.files THEN Raised(f, "NotADirectoryError")
    ELSE IF Parent(p) \notin f.dirs THEN Raised(f, "FileNotFoundError")
    ELSE Returned([f EXCEPT !.dirs = @ \cup {p}])

\* open(p, "w") followed by the write of `content` and the close.
write_file(f, p, content) ==
    IF p \in f.dirs THEN Raised(f, "IsADirectoryError")
    ELSE IF Parent(p) \in DOMAIN f.files THEN Raised(f, "NotADirectoryError")
    ELSE IF Parent(p) \notin f.dirs THEN Raised(f, "FileNotFoundError")
    ELSE Returned([f EXCEPT !.files = (p :> content) @@ @])

\* The exception open(p) for reading raises ("None" when the file opens).
read_error(f, p) ==
    IF p \in DOMAIN f.files THEN "None"
    ELSE IF p \in f.dirs THEN "IsADirectoryError"
    ELSE "FileNotFoundError"

\* What shutil.rmtree(p) leaves of a tree it can remove: nothing at or
\* below p.
RemoveTree(f, p) ==
    [dirs  |-> {d \in f.dirs : ~IsPrefix(p, d)},
     files |-> [q \in {q \in DOMAIN f.files : ~IsPrefix(p, q)} |-> f.files[q]]]

\* A removal that empties the directory and leaves the directory itself.
rmtree_contents_only(f, p) ==
    IF p \in DOMAIN f.files THEN Raised(f, "NotADirectoryError")
    ELSE IF p \notin f.dirs THEN Raised(f, "FileNotFoundError")
    ELSE Returned([RemoveTree(f, p) EXCEPT !.dirs = @ \cup {p}])

\* shutil.rmtree(p)
rmtree(f, p) ==
    IF p \in DOMAIN f.files THEN Raised(f, "NotADirectoryError")
    ELSE IF p \notin f.dirs THEN Raised(f, "FileNotFoundError")
    ELSE Returned(RemoveTree(f, p))

\* The files outside the registry the descriptors name (manifest override,
\* patch, presubmit override), by path; a path not here does not exist.
ExternalFiles ==
    (<<"in", "MODULE.bazel">> :> [bytes |-> "manifest"]) @@
    (<<"in", "fix.patch">> :> [bytes |-> "patch"]) @@
    (<<"in", "presubmit.yml">> :> [bytes |-> "presubmit"])

\* Path(s).name
PathName(s) == s[Len(s)]

\* shutil.copy(src, dst): into dst when dst is a directory, else onto dst.
copy(f, src, dst) ==
    IF src \notin DOMAIN ExternalFiles THEN Raised(f, "FileNotFoundError")
    ELSE write_file(f, IF is_dir(f, dst) THEN joinpath(dst, PathName(src)) ELSE dst,
                    ExternalFiles[src])

(***************************************************************************)
(* class Module: the descriptor of one module version.                     *)
(***************************************************************************)
\* Module.__init__: url, integrity and strip_prefix are not attributes yet.
Module(name, version, compatibility_level) ==
    [name |-> name, version |-> version,
     compatibility_level |-> compatibility_level,
     module_dot_bazel |-> None, deps |-> <<>>, patches |-> <<>>,
     presubmit_yml |-> None, build_targets |-> <<>>, test_targets |-> <<>>]

\* A tuple and a list with the same items are different values in Python
\* ((1, 2) != [1, 2]); a pair carries which of the two it is.
Tuple(items) == [type |-> "tuple", items |-> items]

List(items) == [type |-> "list", items |-> items]

\* A setter that keeps one pair for each dependency name, the last one.
add_dep_last_wins(m, module_name, version) ==
    [m EXCEPT !.deps =
        Append(SelectSeq(@, LAMBDA d : d.items[1] # module_name),
               Tuple(<<module_name, version>>))]

\* self.deps.append((module_name, version))
add_dep(m, module_name, version) ==
    [m EXCEPT !.deps = Append(@, Tuple(<<module_name, version>>))]

set_module_dot_bazel(m, module_dot_bazel) ==
    [m EXCEPT !.module_dot_bazel = module_dot_bazel]

set_source(m, url, integrity, strip_prefix) ==
    [url |-> url, integrity |-> integrity, strip_prefix |-> strip_prefix] @@ m

add_patch(m, patch_file) == [m EXCEPT !.patches = Append(@, patch_file)]

set_presubmit_yml(m, presubmit_yml) == [m EXCEPT !.presubmit_yml = presubmit_yml]

add_build_target(m, target) == [m EXCEPT !.build_targets = Append(@, target)]

add_test_targets(m, target) == [m EXCEPT !.test_targets = Append(@, target)]

\* The descriptors the callers submit, by the way each is built.
\*   plain:         generated manifest and presubmit config, no patch
\*   overridden:    manifest override, one patch, presubmit override, all present
\*   bad_manifest:  the manifest override file does not exist
\*   bad_patch:     the second of two patch files does not exist
\*   bad_presubmit: the presubmit override file does not exist
Kinds == {"plain", "overridden", "bad_manifest", "bad_patch", "bad_presubmit"}

Plain(name, version) ==
    add_build_target(
        set_source(Module(name, version, 1), "https://src/archive.zip", "sha256-0", None),
        "//:lib")

Descriptor(kind, name, version) ==
    CASE kind = "plain" -> Plain(name, version)
      [] kind = "overridden" ->
            set_presubmit_yml(
                add_patch(
                    set_module_dot_bazel(
                        set_source(Module(name, version, 1), "https://src/archive.zip",
                                   "sha256-0", Some("pkg")),
                        Some(<<"in", "MODULE.bazel">>)),
                    <<"in", "fix.patch">>),
                Some(<<"in", "presubmit.yml">>))
      [] kind = "bad_manifest" ->
            set_module_dot_bazel(Plain(name, version), Some(<<"in", "missing.bazel">>))
      [] kind = "bad_patch" ->
            add_patch(add_patch(Plain(name, version), <<"in", "fix.patch">>),
                      <<"in", "missing.patch">>)
      [] kind = "bad_presubmit" ->
            set_presubmit_yml(Plain(name, version), Some(<<"in", "missing.yml">>))

Descriptors == {Descriptor(k, n, v) : k \in Kinds, n \in Names, v \in Versions}

\* The maintainers and homepage the callers give init_module.
MaintainerLists == {<<[name |-> "M", email |-> "m@example.org"]>>}

Homepages == {"https://example.org"}

(***************************************************************************)
(* What the registry writes.                                               *)
(***************************************************************************)
\* "\n".join(lines)
RECURSIVE JoinLines(_)
JoinLines(lines) ==
    IF lines = <<>> THEN ""
    ELSE IF Len(lines) = 1 THEN lines[1]
    ELSE lines[1] \o "\n" \o JoinLines(Tail(lines))

\* A declaration with the version where the name belongs.
BazelDepSwapped(dep) ==
    "bazel_dep(name = \"" \o dep.items[2] \o "\", version = \"" \o dep.items[1] \o "\")"

\* f"bazel_dep(name = \"{name}\", version = \"{version}\")" for name, version
\* in module.deps: the unpacking takes a tuple and a list alike.
BazelDep(dep) ==
    "bazel_dep(name = \"" \o dep.items[1] \o "\", version = \"" \o dep.items[2] \o "\")"

\* RegistryClient._MODULE_BAZEL.format(name, version, compatibility_level, deps)
MODULE_BAZEL(name, version, compatibility_level, deps) ==
    "module(\n    name = \"" \o name \o "\",\n    version = \"" \o version
        \o "\",\n    compatibility_level = \"" \o ToString(compatibility_level)
        \o "\",\n)\n\n" \o deps

\* The generated MODULE.bazel of a descriptor without a manifest override.
GeneratedManifest(m) ==
    [text |-> MODULE_BAZEL(m.name, m.version, m.compatibility_level,
                           JoinLines([i \in 1..Len(m.deps) |-> BazelDep(m.deps[i])]))]

\* Targets written whether the lists are empty or not.
PlatformTargetsAlways(m) ==
    [build_targets |-> m.build_targets, test_targets |-> m.test_targets]

\* The targets of one platform of the generated presubmit.yml.
PlatformTargets(m) ==
    (IF m.build_targets # <<>> THEN [build_targets |-> m.build_targets]
                               ELSE [x \in {} |-> x])
    @@ (IF m.test_targets # <<>> THEN [test_targets |-> m.test_targets]
                                 ELSE [x \in {} |-> x])

\* The generated presubmit.yml of a descriptor without a presubmit override.
GeneratedPresubmit(m) ==
    [platforms |-> [linux |-> PlatformTargets(m), macos |-> PlatformTargets(m),
                    windows |-> PlatformTargets(m)]]

\* The metadata.json init_module writes.
NewMetadata(maintainers, homepage) ==
    [maintainers |-> maintainers, homepage |-> homepage, versions |-> <<>>,
     yanked_versions |-> [x \in {} |-> x]]

(***************************************************************************)
(* The registry's paths, relative to its root.                             *)
(***************************************************************************)
root == <<>>

ModuleDir(module_name) == joinpath(joinpath(root, "modules"), module_name)

VersionDir(module_name, version) == joinpath(ModuleDir(module_name), version)

MetadataPath(module_name) == joinpath(ModuleDir(module_name), "metadata.json")

ModuleListPath == joinpath(root, "module_list")

\* A check with is_file() in place of is_dir().
contains_is_file(f, module_name, version) ==
    LET p == joinpath(joinpath(root, "modules"), module_name)
    IN  (IF TruthyVersion(version) THEN joinpath(p, version) ELSE p) \in DOMAIN f.files

\* A check that never joins the version.
contains_module_only(f, module_name, version) ==
    is_dir(f, joinpath(joinpath(root, "modules"), module_name))

\* RegistryClient.contains
contains(f, module_name, version) ==
    LET p == joinpath(joinpath(root, "modules"), module_name)
    IN  is_dir(f, IF TruthyVersion(version) THEN joinpath(p, version) ELSE p)

(***************************************************************************)
(* Call frames.  A frame holds one call of a RegistryClient method: the    *)
(* method (op), its arguments (arg), the statement it is at (pc, "return"  *)
(* once it has returned or raised), its local variables (loc), what it     *)
(* returned or raised (result) and the statement that raised (at).         *)
(***************************************************************************)
NoLocals ==
    [modules |-> <<>>, metadata |-> [unset |-> TRUE], source |-> [unset |-> TRUE],
     i |-> 0]

NoCall ==
    [op |-> "none", pc |-> "return", arg |-> [unset |-> TRUE], loc |-> NoLocals,
     result |-> "None", at |-> ""]

FirstPc(op) ==
    CASE op = "init_module" -> "mkdir"
      [] op = "add" -> "contains"
      [] op = "delete" -> "rmtree"
      [] op = "contains" -> "is_dir"

Call(op, arg) ==
    [op |-> op, pc |-> FirstPc(op), arg |-> arg, loc |-> NoLocals,
     result |-> "running", at |-> ""]

CallName(c) ==
    IF "module" \in DOMAIN c.arg THEN c.arg.module.name ELSE c.arg.module_name

CallVersion(c) ==
    IF "module" \in DOMAIN c.arg THEN c.arg.module.version ELSE c.arg.version

\* What a frame keeps of its arguments once the call is over: the module name
\* and the version it was about.
Kept(c) ==
    IF c.op = "init_module" THEN [module_name |-> CallName(c)]
    ELSE [module_name |-> CallName(c), version |-> CallVersion(c)]

\* The frame after `return value`.
Return(f, c, value) ==
    [fs |-> f,
     c |-> [c EXCEPT !.pc = "return", !.result = value, !.loc = NoLocals,
                     !.arg = Kept(c)]]

\* A handler that removes the version directory before an exception of add
\* leaves the method.
RaiseAfterCleanup(f, c, e) ==
    [fs |-> IF c.op = "add" /\ c.pc \notin {"contains", "mkdir"}
            THEN RemoveTree(f, VersionDir(CallName(c), CallVersion(c)))
            ELSE f,
     c |-> [c EXCEPT !.pc = "return", !.result = e, !.at = c.pc, !.loc = NoLocals,
                     !.arg = Kept(c)]]

\* The frame after the statement at c.pc raised e: nothing catches it.
Raise(f, c, e) ==
    [fs |-> f,
     c |-> [c EXCEPT !.pc = "return", !.result = e, !.at = c.pc, !.loc = NoLocals,
                     !.arg = Kept(c)]]

\* A call whose exception is swallowed: on to statement pc whatever happened.
ContinueIgnoringErrors(r, c, pc, loc) ==
    [fs |-> r.fs, c |-> [c EXCEPT !.pc = pc, !.loc = loc]]

\* After a filesystem call with outcome r: on to statement pc with locals loc,
\* or out with the exception the call raised.
Continue(r, c, pc, loc) ==
    IF r.exc = "None" THEN [fs |-> r.fs, c |-> [c EXCEPT !.pc = pc, !.loc = loc]]
    ELSE Raise(r.fs, c, r.exc)

(***************************************************************************)
(* RegistryClient.init_module, statement by statement.                     *)
(***************************************************************************)
\* A rewrite that appends and does not sort.
InitWriteModuleListUnsorted(f, c) ==
    LET modules == Append(c.loc.modules, c.arg.module_name \o "\n")
        r == write_file(f, ModuleListPath, [lines |-> modules])
    IN  IF r.exc = "None" THEN Return(r.fs, c, "None") ELSE Raise(r.fs, c, r.exc)

\* A rewrite that reads module_list again and appends to what it holds now.
InitWriteModuleListFresh(f, c) ==
    LET modules == SortList(Append(f.files[ModuleListPath].lines,
                                   c.arg.module_name \o "\n"))
        r == write_file(f, ModuleListPath, [lines |-> modules])
    IN  IF r.exc = "None" THEN Return(r.fs, c, "None") ELSE Raise(r.fs, c, r.exc)

\* modules.append(module_name + "\n"); modules.sort();
\* module_list.open("w").writelines(modules)
InitWriteModuleList(f, c) ==
    LET modules == SortList(Append(c.loc.modules, c.arg.module_name \o "\n"))
        r == write_file(f, ModuleListPath, [lines |-> modules])
    IN  IF r.exc = "None" THEN Return(r.fs, c, "None") ELSE Raise(r.fs, c, r.exc)

init_module(f, c) ==
    LET p == ModuleDir(c.arg.module_name)
    IN  CASE c.pc = "mkdir" ->
                Continue(mkdir(f, p), c, "write_metadata", c.loc)
          [] c.pc = "write_metadata" ->
                Continue(write_file(f, joinpath(p, "metadata.json"),
                                    NewMetadata(c.arg.maintainers, c.arg.homepage)),
                         c, "read_module_list", c.loc)
          [] c.pc = "read_module_list" ->
                IF read_error(f, ModuleListPath) # "None"
                THEN Raise(f, c, read_error(f, ModuleListPath))
                ELSE Continue(Returned(f), c, "write_module_list",
                              [c.loc EXCEPT !.modules = f.files[ModuleListPath].lines])
          [] c.pc = "write_module_list" -> InitWriteModuleList(f, c)

(***************************************************************************)
(* RegistryClient.add, statement by statement.                             *)
(***************************************************************************)
\* The source dict before the patches are recorded.
SourceDict(m) ==
    [url |-> m.url, integrity |-> m.integrity]
    @@ (IF TruthyStr(m.strip_prefix) THEN [strip_prefix |-> m.strip_prefix[1]]
                                     ELSE [x \in {} |-> x])

\* A rewrite that appends the version and does not sort.
AddWriteMetadataUnsorted(f, c) ==
    LET metadata == [c.loc.metadata EXCEPT !.versions = Append(@, c.arg.module.version)]
        r == write_file(f, MetadataPath(c.arg.module.name), metadata)
    IN  IF r.exc = "None" THEN Return(r.fs, c, "None") ELSE Raise(r.fs, c, r.exc)

\* metadata["versions"].append(module.version); metadata["versions"].sort();
\* json.dump(metadata, metadata_path.open("w"))
AddWriteMetadata(f, c) ==
    LET metadata == [c.loc.metadata EXCEPT
                        !.versions = SortList(Append(@, c.arg.module.version))]
        r == write_file(f, MetadataPath(c.arg.module.name), metadata)
    IN  IF r.exc = "None" THEN Return(r.fs, c, "None") ELSE Raise(r.fs, c, r.exc)

add(f, c) ==
    LET module == c.arg.module
        p == joinpath(joinpath(joinpath(root, "modules"), module.name), module.version)
        patch_dir == joinpath(p, "patches")
    IN  CASE c.pc = "contains" ->
                IF contains(f, module.name, module.version)
                THEN Raise(f, c, "RegistryModifyException")
                ELSE Continue(Returned(f), c, "mkdir", c.loc)
          [] c.pc = "mkdir" ->
                Continue(mkdir(f, p), c, "module_dot_bazel", c.loc)
          [] c.pc = "module_dot_bazel" ->
                Continue(IF TruthyPath(module.module_dot_bazel)
                         THEN copy(f, module.module_dot_bazel[1],
                                   joinpath(p, "MODULE.bazel"))
                         ELSE write_file(f, joinpath(p, "MODULE.bazel"),
                                         GeneratedManifest(module)),
                         c, "source", c.loc)
          [] c.pc = "source" ->
                IF "url" \notin DOMAIN module THEN Raise(f, c, "AttributeError")
                ELSE IF module.patches # <<>>
                THEN Continue(mkdir(f, patch_dir), c, "patch",
                              [c.loc EXCEPT !.source = [patches |-> <<>>] @@ SourceDict(module),
                                            !.i = 1])
                ELSE Continue(Returned(f), c, "source_json",
                              [c.loc EXCEPT !.source = SourceDict(module)])
          [] c.pc = "patch" ->
                LET s == module.patches[c.loc.i]
                IN  Continue(copy(f, s, patch_dir), c,
                             IF c.loc.i < Len(module.patches) THEN "patch" ELSE "source_json",
                             [c.loc EXCEPT !.source.patches = Append(@, PathName(s)),
                                           !.i = @ + 1])
          [] c.pc = "source_json" ->
                Continue(write_file(f, joinpath(p, "source.json"), c.loc.source),
                         c, "presubmit", c.loc)
          [] c.pc = "presubmit" ->
                Continue(IF TruthyPath(module.presubmit_yml)
                         THEN copy(f, module.presubmit_yml[1], joinpath(p, "presubmit.yml"))
                         ELSE write_file(f, joinpath(p, "presubmit.yml"),
                                         GeneratedPresubmit(module)),
                         c, "load_metadata", c.loc)
          [] c.pc = "load_metadata" ->
                IF read_error(f, MetadataPath(module.name)) # "None"
                THEN Raise(f, c, read_error(f, MetadataPath(module.name)))
                ELSE Continue(Returned(f), c, "write_metadata",
                              [c.loc EXCEPT !.metadata = f.files[MetadataPath(module.name)]])
          [] c.pc = "write_metadata" -> AddWriteMetadata(f, c)

(***************************************************************************)
(* RegistryClient.delete, statement by statement.                          *)
(***************************************************************************)
\* A rewrite that makes metadata.json anew and keeps the versions only.
DeleteWriteMetadataAnew(f, c) ==
    IF c.arg.version \notin Range(c.loc.metadata.versions)
    THEN Raise(f, c, "ValueError")
    ELSE LET metadata == [NewMetadata(<<>>, "") EXCEPT
                             !.versions = ListRemove(c.loc.metadata.versions,
                                                     c.arg.version)]
             r == write_file(f, MetadataPath(c.arg.module_name), metadata)
         IN  IF r.exc = "None" THEN Return(r.fs, c, "None") ELSE Raise(r.fs, c, r.exc)

\* metadata["versions"].remove(version); json.dump(metadata, metadata_path.open("w"))
DeleteWriteMetadata(f, c) ==
    IF c.arg.version \notin Range(c.loc.metadata.versions)
    THEN Raise(f, c, "ValueError")
    ELSE LET metadata == [c.loc.metadata EXCEPT
                             !.versions = ListRemove(@, c.arg.version)]
             r == write_file(f, MetadataPath(c.arg.module_name), metadata)
         IN  IF r.exc = "None" THEN Return(r.fs, c, "None") ELSE Raise(r.fs, c, r.exc)

\* A delete that rewrites metadata.json first and removes the directory last.
delete_metadata_first(f, c) ==
    LET p == joinpath(joinpath(root, "modules"), c.arg.module_name)
        metadata_path == joinpath(p, "metadata.json")
    IN  CASE c.pc = "rmtree" ->
                IF read_error(f, metadata_path) # "None"
                THEN Raise(f, c, read_error(f, metadata_path))
                ELSE Continue(Returned(f), c, "load_metadata",
                              [c.loc EXCEPT !.metadata = f.files[metadata_path]])
          [] c.pc = "load_metadata" ->
                IF c.arg.version \notin Range(c.loc.metadata.versions)
                THEN Raise(f, c, "ValueError")
                ELSE Continue(write_file(f, metadata_path,
                                         [c.loc.metadata EXCEPT
                                             !.versions = ListRemove(@, c.arg.version)]),
                              c, "write_metadata", c.loc)
          [] c.pc = "write_metadata" ->
                LET r == rmtree(f, joinpath(p, c.arg.version))
                IN  IF r.exc = "None" THEN Return(r.fs, c, "None")
                    ELSE Raise(r.fs, c, r.exc)

\* A delete that takes a missing directory and a missing entry for done.
delete_missing_ok(f, c) ==
    LET p == joinpath(joinpath(root, "modules"), c.arg.module_name)
        metadata_path == joinpath(p, "metadata.json")
    IN  CASE c.pc = "rmtree" ->
                Continue(Returned(rmtree(f, joinpath(p, c.arg.version)).fs), c,
                         "load_metadata", c.loc)
          [] c.pc = "load_metadata" ->
                IF read_error(f, metadata_path) # "None"
                THEN Raise(f, c, read_error(f, metadata_path))
                ELSE Continue(Returned(f), c, "write_metadata",
                              [c.loc EXCEPT !.metadata = f.files[metadata_path]])
          [] c.pc = "write_metadata" ->
                LET r == write_file(f, metadata_path,
                                    [c.loc.metadata EXCEPT
                                        !.versions = ListRemove(@, c.arg.version)])
                IN  IF r.exc = "None" THEN Return(r.fs, c, "None")
                    ELSE Raise(r.fs, c, r.exc)

delete(f, c) ==
    LET p == joinpath(joinpath(root, "modules"), c.arg.module_name)
        metadata_path == joinpath(p, "metadata.json")
    IN  CASE c.pc = "rmtree" ->
                Continue(rmtree(f, joinpath(p, c.arg.version)), c, "load_metadata", c.loc)
          [] c.pc = "load_metadata" ->
                IF read_error(f, metadata_path) # "None"
                THEN Raise(f, c, read_error(f, metadata_path))
                ELSE Continue(Returned(f), c, "write_metadata",
                              [c.loc EXCEPT !.metadata = f.files[metadata_path]])
          [] c.pc = "write_metadata" -> DeleteWriteMetadata(f, c)

(***************************************************************************)
(* One statement of a frame, and a call run to its return.                 *)
(***************************************************************************)
Step(f, c) ==
    CASE c.op = "init_module" -> init_module(f, c)
      [] c.op = "add" -> add(f, c)
      [] c.op = "delete" -> delete(f, c)
      [] c.op = "contains" ->
            Return(f, c, IF contains(f, c.arg.module_name, c.arg.version)
                         THEN "True" ELSE "False")

RECURSIVE Run(_, _)
Run(f, c) ==
    IF c.pc = "return" THEN [fs |-> f, c |-> c]
    ELSE LET s == Step(f, c) IN Run(s.fs, s.c)

(***************************************************************************)
(* The state: the registry tree (fs) and the clients' frames, and what the *)
(* calls made so far did (history, read by the properties only):           *)
(*   initialized  the names init_module returned for                       *)
(*   added        the (name, version) pairs add returned for, less those   *)
(*                whose version directory a later delete removed           *)
(*   addCalled    the (name, version) pairs add was called with            *)
(*   partial      the names an add raised for after its version directory  *)
(*                was created                                              *)
(*   onlyInit     no add and no delete has been called                     *)
(*   ncalls       the number of init_module, add and delete calls made     *)
(* and the script that calls the registry (script): where it is (pc), the  *)
(* Module it holds (module) and the Module it last dumped (dumped).        *)
(***************************************************************************)
\* The caller script (src/add_module.py) before it has made its Module.
NoScript == [pc |-> "start", module |-> [unset |-> TRUE], dumped |-> [unset |-> TRUE]]

EmptyRegistry ==
    [dirs |-> {root, joinpath(root, "modules")},
     files |-> (ModuleListPath :> [lines |-> <<>>])]

Init ==
    /\ fs = EmptyRegistry
    /\ frame = [p \in Procs |-> NoCall]
    /\ script = NoScript
    /\ initialized = {}
    /\ added = {}
    /\ addCalled = {}
    /\ partial = {}
    /\ onlyInit = TRUE
    /\ ncalls = 0

\* The history after frame c returned or raised, leaving the tree f.
Settle(c, f) ==
    /\ initialized' = IF c.op = "init_module" /\ c.result = "None"
                      THEN initialized \cup {CallName(c)} ELSE initialized
    /\ added' = CASE c.op = "add" /\ c.result = "None" ->
                        added \cup {<<CallName(c), CallVersion(c)>>}
                  [] c.op = "delete" ->
                        {a \in added : is_dir(f, VersionDir(a[1], a[2]))}
                  [] OTHER -> added
    /\ addCalled' = IF c.op = "add"
                    THEN addCalled \cup {<<CallName(c), CallVersion(c)>>} ELSE addCalled
    /\ partial' = IF c.op = "add" /\ c.result # "None" /\ c.at \notin {"contains", "mkdir"}
                  THEN partial \cup {CallName(c)} ELSE partial
    /\ onlyInit' = (onlyInit /\ c.op \notin {"add", "delete"})

\* Client p makes a call and the call runs to its return with no other
\* client's statement in between.
Do(p, op, arg) ==
    /\ frame[p].pc = "return"
    /\ LET r == Run(fs, Call(op, arg))
       IN  /\ fs' = r.fs
           /\ frame' = [frame EXCEPT ![p] = r.c]
           /\ Settle(r.c, r.fs)

InitModule(module_name, maintainers, homepage) ==
    /\ ncalls < MaxCalls
    /\ ncalls' = ncalls + 1
    /\ UNCHANGED script
    /\ Do(1, "init_module",
          [module_name |-> module_name, maintainers |-> maintainers,
           homepage |-> homepage])

Add(module) ==
    /\ ncalls < MaxCalls
    /\ ncalls' = ncalls + 1
    /\ UNCHANGED script
    /\ Do(1, "add", [module |-> module])

Delete(module_name, version) ==
    /\ ncalls < MaxCalls
    /\ ncalls' = ncalls + 1
    /\ UNCHANGED script
    /\ Do(1, "delete", [module_name |-> module_name, version |-> version])

Contains(module_name, version) ==
    /\ UNCHANGED ncalls
    /\ UNCHANGED script
    /\ Do(1, "contains", [module_name |-> module_name, version |-> version])

\* One client, one call at a time.
Next ==
    \/ \E n \in Names, m \in MaintainerLists, h \in Homepages : InitModule(n, m, h)
    \/ \E module \in Descriptors : Add(module)
    \/ \E n \in Names, v \in Versions : Delete(n, v)
    \/ \E n \in Names, v \in Versions : Contains(n, v)

Spec == Init /\ [][Next]_vars

(***************************************************************************)
(* Clients whose calls interleave statement by statement: no lock guards   *)
(* the registry root.                                                      *)
(***************************************************************************)
Invoke(p, op, arg) ==
    /\ frame[p].pc = "return"
    /\ frame' = [frame EXCEPT ![p] = Call(op, arg)]
    /\ UNCHANGED <<fs, script, initialized, added, addCalled, partial, onlyInit>>

InvokeInitModule(p, limit, module_name, maintainers, homepage) ==
    /\ ncalls < limit
    /\ ncalls' = ncalls + 1
    /\ Invoke(p, "init_module",
              [module_name |-> module_name, maintainers |-> maintainers,
               homepage |-> homepage])

InvokeAdd(p, limit, module) ==
    /\ ncalls < limit
    /\ ncalls' = ncalls + 1
    /\ Invoke(p, "add", [module |-> module])

InvokeDelete(p, limit, module_name, version) ==
    /\ ncalls < limit
    /\ ncalls' = ncalls + 1
    /\ Invoke(p, "delete", [module_name |-> module_name, version |-> version])

InvokeContains(p, module_name, version) ==
    /\ UNCHANGED ncalls
    /\ Invoke(p, "contains", [module_name |-> module_name, version |-> version])

\* Client p executes the statement its frame is at.
Statement(p) ==
    /\ frame[p].pc # "return"
    /\ LET s == Step(fs, frame[p])
       IN  /\ fs' = s.fs
           /\ frame' = [frame EXCEPT ![p] = s.c]
           /\ IF s.c.pc = "return" THEN Settle(s.c, s.fs)
              ELSE UNCHANGED <<initialized, added, addCalled, partial, onlyInit>>
    /\ UNCHANGED <<script, ncalls>>

\* One client, statement by statement.  Every state of such a behaviour is
\* a tree another reader of the registry root can see: between two
\* statements of a call the tree is what the statements so far left.
NextObserved ==
    \/ \E n \in Names, m \in MaintainerLists, h \in Homepages :
            InvokeInitModule(1, MaxCalls, n, m, h)
    \/ \E module \in Descriptors : InvokeAdd(1, MaxCalls, module)
    \/ \E n \in Names, v \in Versions : InvokeDelete(1, MaxCalls, n, v)
    \/ \E n \in Names, v \in Versions : InvokeContains(1, n, v)
    \/ Statement(1)

SpecObserved == Init /\ [][NextObserved]_vars

\* Two clients, each making any call that changes the registry.
NextConcurrent ==
    \/ \E p \in Procs, n \in Names, m \in MaintainerLists, h \in Homepages :
            InvokeInitModule(p, MaxConcurrentCalls, n, m, h)
    \/ \E p \in Procs, module \in Descriptors : InvokeAdd(p, MaxConcurrentCalls, module)
    \/ \E p \in Procs, n \in Names, v \in Versions :
            InvokeDelete(p, MaxConcurrentCalls, n, v)
    \/ \E p \in Procs : Statement(p)

SpecConcurrent == Init /\ [][NextConcurrent]_vars

\* A registry in which init_module has returned for module a and has not
\* been called for module b.
InitOneModule ==
    /\ fs = Run(EmptyRegistry,
                Call("init_module",
                     [module_name |-> "a",
                      maintainers |-> <<[name |-> "M", email |-> "m@example.org"]>>,
                      homepage |-> "https://example.org"])).fs
    /\ frame = [p \in Procs |-> NoCall]
    /\ script = NoScript
    /\ initialized = {"a"}
    /\ added = {}
    /\ addCalled = {}
    /\ partial = {}
    /\ onlyInit = TRUE
    /\ ncalls = 0

\* The descriptors two clients submit at a time: one that add accepts and
\* one whose presubmit override is missing.
RacingDescriptors ==
    {Descriptor(k, n, v) : k \in {"plain", "bad_presubmit"}, n \in Names, v \in Versions}

\* Two clients, each calling add.
NextConcurrentAdd ==
    \/ \E p \in Procs, module \in RacingDescriptors :
            InvokeAdd(p, MaxConcurrentCalls, module)
    \/ \E p \in Procs : Statement(p)

SpecConcurrentAdd == InitOneModule /\ [][NextConcurrentAdd]_vars

(***************************************************************************)
(* Module.dump and Module.from_json: the descriptor's __dict__ as JSON.    *)
(* JSON has null, strings, numbers and arrays: json.dump writes a tuple as *)
(* an array, as it writes a list, and json.load reads every array as a     *)
(* list.                                                                   *)
(***************************************************************************)
\* The attributes that hold None or a str.
OptionalFields == {"module_dot_bazel", "presubmit_yml", "strip_prefix"}

\* The JSON value json.dump writes for attribute k holding v.
JsonEncode(k, v) ==
    CASE k = "deps" -> [i \in 1..Len(v) |-> v[i].items]
      [] k \in OptionalFields -> IF v = None THEN [null |-> TRUE] ELSE [string |-> v[1]]
      [] OTHER -> v

\* The Python value json.load yields for the JSON value j of attribute k.
JsonDecode(k, j) ==
    CASE k = "deps" -> [i \in 1..Len(j) |-> List(j[i])]
      [] k \in OptionalFields -> IF "null" \in DOMAIN j THEN None ELSE Some(j.string)
      [] OTHER -> j

\* Module.dump(file): json.dump(self.__dict__, open(file, "w"))
dump(f, m, file) ==
    write_file(f, file, [json |-> [k \in DOMAIN m |-> JsonEncode(k, m[k])]])

\* Module.from_json(file) on any Module: self.__dict__ = json.load(open(file)),
\* whatever the Module held before.
from_json(f, m, file) ==
    LET j == f.files[file].json
    IN  [k \in DOMAIN j |-> JsonDecode(k, j[k])]

(***************************************************************************)
(* The caller script, src/add_module.py: it makes a Module with the        *)
(* builder methods, dumps it, or loads one from a dump, and then hands it  *)
(* to the registry in main.                                                *)
(***************************************************************************)
\* The most add_dep, add_patch, and add_build_target or add_test_targets
\* calls a script makes on one Module.
MaxDeps == 2

MaxPatches == 1

MaxTargets == 1

\* The compatibility levels, dependencies, patch files and targets the
\* script passes.
CompatibilityLevels == {1, 2}

DepPairs == {<<"foo", "1.0">>, <<"bar", "2.0">>, <<"foo", "2.0">>}

StripPrefixes == {None, Some("pkg")}

\* f"{module.name}.{timestamp}.json", in the directory the script runs in,
\* which is the registry root (RegistryClient(".")).
DumpPath(m) == joinpath(root, m.name \o ".json")

\* module = Module(name, version, compatibility)
NewModule(name, version, compatibility_level) ==
    /\ script.pc = "start"
    /\ script' = [script EXCEPT !.pc = "input",
                                !.module = Module(name, version, compatibility_level)]
    /\ UNCHANGED <<fs, frame, initialized, added, addCalled, partial, onlyInit, ncalls>>

\* The script calls a builder method on its Module.
Build(m) ==
    /\ script.pc = "input"
    /\ script' = [script EXCEPT !.module = m]
    /\ UNCHANGED <<fs, frame, initialized, added, addCalled, partial, onlyInit, ncalls>>

AddDep(module_name, version) ==
    /\ script.pc = "input" /\ Len(script.module.deps) < MaxDeps
    /\ Build(add_dep(script.module, module_name, version))

SetSource(url, integrity, strip_prefix) ==
    /\ script.pc = "input" /\ "url" \notin DOMAIN script.module
    /\ Build(set_source(script.module, url, integrity, strip_prefix))

SetModuleDotBazel(module_dot_bazel) ==
    /\ script.pc = "input" /\ script.module.module_dot_bazel = None
    /\ Build(set_module_dot_bazel(script.module, module_dot_bazel))

AddPatch(patch_file) ==
    /\ script.pc = "input" /\ Len(script.module.patches) < MaxPatches
    /\ Build(add_patch(script.module, patch_file))

SetPresubmitYml(presubmit_yml) ==
    /\ script.pc = "input" /\ script.module.presubmit_yml = None
    /\ Build(set_presubmit_yml(script.module, presubmit_yml))

AddBuildTarget(target) ==
    /\ script.pc = "input" /\ Len(script.module.build_targets) < MaxTargets
    /\ Build(add_build_target(script.module, target))

AddTestTargets(target) ==
    /\ script.pc = "input" /\ Len(script.module.test_targets) < MaxTargets
    /\ Build(add_test_targets(script.module, target))

\* module.dump(...): the script goes on when the file is written.
Dump ==
    /\ script.pc = "input"
    /\ LET r == dump(fs, script.module, DumpPath(script.module))
       IN  /\ fs' = r.fs
           /\ script' = [script EXCEPT !.pc = IF r.exc = "None" THEN "dumped" ELSE "raised",
                                       !.dumped = script.module]
    /\ UNCHANGED <<frame, initialized, added, addCalled, partial, onlyInit, ncalls>>

\* A run with --input=<the dump>: module = Module(); module.from_json(args.input)
FromJson ==
    /\ script.pc = "dumped"
    /\ script' = [script EXCEPT
                    !.pc = "loaded",
                    !.module = from_json(fs, Module(None, None, 1), DumpPath(script.dumped))]
    /\ UNCHANGED <<fs, frame, initialized, added, addCalled, partial, onlyInit, ncalls>>

\* if not client.contains(module.name, module.version):
MainContains ==
    /\ script.pc \in {"dumped", "loaded"}
    /\ script' = [script EXCEPT
                    !.pc = IF contains(fs, script.module.name, script.module.version)
                           THEN "add" ELSE "init_module"]
    /\ UNCHANGED <<fs, frame, initialized, added, addCalled, partial, onlyInit, ncalls>>

\* client.init_module(module.name, maintainers, homepage); an exception ends
\* the script.
MainInitModule(maintainers, homepage) ==
    /\ script.pc = "init_module"
    /\ ncalls' = ncalls + 1
    /\ Do(1, "init_module",
          [module_name |-> script.module.name, maintainers |-> maintainers,
           homepage |-> homepage])
    /\ script' = [script EXCEPT !.pc = IF frame'[1].result = "None" THEN "add" ELSE "raised"]

\* client.add(module)
MainAdd ==
    /\ script.pc = "add"
    /\ ncalls' = ncalls + 1
    /\ Do(1, "add", [module |-> script.module])
    /\ script' = [script EXCEPT !.pc = IF frame'[1].result = "None" THEN "done" ELSE "raised"]

\* One run of a script that makes its Module call by call.
NextDescriptor ==
    \/ \E n \in Names, v \in Versions, l \in CompatibilityLevels : NewModule(n, v, l)
    \/ \E d \in DepPairs : AddDep(d[1], d[2])
    \/ \E sp \in StripPrefixes : SetSource("https://src/archive.zip", "sha256-0", sp)
    \/ SetModuleDotBazel(Some(<<"in", "MODULE.bazel">>))
    \/ AddPatch(<<"in", "fix.patch">>)
    \/ SetPresubmitYml(Some(<<"in", "presubmit.yml">>))
    \/ AddBuildTarget("//:lib")
    \/ AddTestTargets("//:test")
    \/ Dump
    \/ FromJson
    \/ MainContains
    \/ \E m \in MaintainerLists, h \in Homepages : MainInitModule(m, h)
    \/ MainAdd

SpecDescriptor == Init /\ [][NextDescriptor]_vars

\* fromUserInput() as a whole: the Module the answers to its prompts make.
MainFromUserInput(module) ==
    /\ script.pc = "start"
    /\ script' = [script EXCEPT !.pc = "input", !.module = module]
    /\ UNCHANGED <<fs, frame, initialized, added, addCalled, partial, onlyInit, ncalls>>

\* The script has ended, by its last statement or by an exception; it is run
\* again.
MainAgain ==
    /\ script.pc \in {"done", "raised"}
    /\ ncalls < MaxCalls
    /\ script' = [script EXCEPT !.pc = "start"]
    /\ UNCHANGED <<fs, frame, initialized, added, addCalled, partial, onlyInit, ncalls>>

\* The descriptors whose override and patch files exist.
GoodDescriptors ==
    {Descriptor(k, n, v) : k \in {"plain", "overridden"}, n \in Names, v \in Versions}

\* Runs of the script, one after the other, on one registry.
NextMain ==
    \/ \E module \in GoodDescriptors : MainFromUserInput(module)
    \/ Dump
    \/ MainContains
    \/ \E m \in MaintainerLists, h \in Homepages : MainInitModule(m, h)
    \/ MainAdd
    \/ MainAgain

SpecMain == Init /\ [][NextMain]_vars

(***************************************************************************)
(* What a reader of the tree sees.                                         *)
(***************************************************************************)
HasMetadata(f, n) == MetadataPath(n) \in DOMAIN f.files

\* metadata.json["versions"] of module n
VersionsOf(f, n) == f.files[MetadataPath(n)].versions

Listed(f, n, v) == HasMetadata(f, n) /\ v \in Range(VersionsOf(f, n))

\* The names of the subdirectories of modules/<n>/
VersionSubdirs(f, n) ==
    {d[Len(d)] : d \in {e \in f.dirs : e # ModuleDir(n) /\ Parent(e) = ModuleDir(n)}}

\* Nothing of the tree is at or below p.
Gone(f, p) ==
    /\ \A d \in f.dirs : ~IsPrefix(p, d)
    /\ \A q \in DOMAIN f.files : ~IsPrefix(p, q)

ModuleListLines(f) == f.files[ModuleListPath].lines

IsSortedList(s) == \A i \in 1..Len(s) : \A j \in i..Len(s) : StrLeq(s[i], s[j])

NoDuplicates(s) == \A i \in 1..Len(s) : \A j \in 1..Len(s) : s[i] = s[j] => i = j

\* Client 1 has just made a call that changes the registry (in Spec the call
\* has also returned).
Called(op) == ncalls' # ncalls /\ frame'[1].op = op

(***************************************************************************)
(* C1  Duplicate rejection.  An add for a (name, version) that a previous  *)
(* add returned for (and no delete removed since) raises                   *)
(* RegistryModifyException and leaves the whole tree as it was.            *)
(***************************************************************************)
C1_DuplicateRejected ==
    [][Called("add")
          /\ <<CallName(frame'[1]), CallVersion(frame'[1])>> \in added
       => frame'[1].result = "RegistryModifyException" /\ fs' = fs]_vars

\* A duplicate add has been rejected.
C1_Witness ==
    /\ frame[1].op = "add"
    /\ frame[1].result = "RegistryModifyException"
    /\ <<CallName(frame[1]), CallVersion(frame[1])>> \in added

(***************************************************************************)
(* C2  The versions index never drifts.  As stated: for every initialized  *)
(* module, metadata.json["versions"] is sorted, has no duplicates and is   *)
(* the set of version subdirectories present, after any add and delete     *)
(* calls.                                                                  *)
(***************************************************************************)
InSync(f, n) ==
    /\ IsSortedList(VersionsOf(f, n))
    /\ NoDuplicates(VersionsOf(f, n))
    /\ Range(VersionsOf(f, n)) = VersionSubdirs(f, n)

C3_ModuleListSorted ==
    onlyInit =>
        /\ IsSortedList(ModuleListLines(fs))
        /\ NoDuplicates(ModuleListLines(fs))
        /\ Range(ModuleListLines(fs)) = {n \o "\n" : n \in initialized}

\* Both names are initialized and a repeated init_module has raised.
C3_Witness ==
    /\ onlyInit
    /\ initialized = Names
    /\ frame[1].op = "init_module" /\ frame[1].result = "FileExistsError"

(***************************************************************************)
(* C4  contains before and after add.  As stated: for any name and version *)
(* of an initialized module, contains returns False before add was called  *)
(* for that version, True right after an add for it returned, and changes  *)
(* nothing.                                                                *)
(***************************************************************************)
ContainsAnswers(versions) ==
    LET c == frame'[1]
        n == CallName(c)
        v == CallVersion(c)
    IN  c.op = "contains" /\ n \in initialized /\ v \in versions
        => /\ fs' = fs
           /\ UNCHANGED <<initialized, added, addCalled, partial, onlyInit, ncalls>>
           /\ <<n, v>> \notin addCalled => c.result = "False"
           /\ (/\ frame[1].op = "add" /\ frame[1].result = "None"
               /\ CallName(frame[1]) = n /\ CallVersion(frame[1]) = v)
              => c.result = "True"

C4_Original == [][ContainsAnswers(Versions)]_vars

\* C4 as amended: the same for every version but the empty string, for which
\* contains answers whether the module directory exists.
C4_ContainsBeforeAfter ==
    [][/\ ContainsAnswers(Versions \ {""})
       /\ frame'[1].op = "contains"
          => /\ fs' = fs
             /\ CallVersion(frame'[1]) = ""
                => (frame'[1].result = "True")
                        = is_dir(fs, ModuleDir(CallName(frame'[1])))]_vars

\* contains has answered True for a version add returned for.
C4_Witness ==
    /\ frame[1].op = "contains" /\ frame[1].result = "True"
    /\ <<CallName(frame[1]), CallVersion(frame[1])>> \in added

(***************************************************************************)
(* C5  Delete reverses add.  A delete of a (name, version) that add        *)
(* returned for returns, leaves nothing of the version directory, leaves   *)
(* the version out of metadata.json["versions"], and contains is False     *)
(* afterwards, so that add accepts the version again.                      *)
(***************************************************************************)
C5_DeleteReversesAdd ==
    [][LET n == CallName(frame'[1])
           v == CallVersion(frame'[1])
       IN  Called("delete") /\ <<n, v>> \in added
           => /\ frame'[1].result = "None"
              /\ Gone(fs', VersionDir(n, v))
              /\ ~Listed(fs', n, v)
              /\ ~contains(fs', n, v)
              /\ HasMetadata(fs', n)]_vars

\* An added version has been deleted.
C5_Witness ==
    /\ frame[1].op = "delete" /\ frame[1].result = "None"
    /\ CallName(frame[1]) \in initialized
    /\ ~contains(fs, CallName(frame[1]), CallVersion(frame[1]))
    /\ <<CallName(frame[1]), CallVersion(frame[1])>> \in addCalled

(***************************************************************************)
(* C6  Delete seen by a reader.  As stated: while a delete of an added     *)
(* version runs, a reader never sees the version directory without the     *)
(* version's entry in metadata.json["versions"], nor the entry without the *)
(* directory.                                                              *)
(***************************************************************************)
Deleting(n, v) ==
    /\ frame[1].op = "delete" /\ frame[1].pc # "return"
    /\ CallName(frame[1]) = n /\ CallVersion(frame[1]) = v
    /\ <<n, v>> \in added

C6_Original ==
    \A n \in Names, v \in Versions :
        Deleting(n, v) => (is_dir(fs, VersionDir(n, v)) <=> Listed(fs, n, v))

\* C6 as amended: while the delete runs a reader may see the entry without
\* the directory, never the directory without the entry; once the delete has
\* returned a reader sees neither.
C6_DeleteObserved ==
    /\ \A n \in Names, v \in Versions :
            Deleting(n, v) => ~(is_dir(fs, VersionDir(n, v)) /\ ~Listed(fs, n, v))
    /\ frame[1].op = "delete" /\ frame[1].pc = "return" /\ frame[1].result = "None"
       => /\ ~is_dir(fs, VersionDir(CallName(frame[1]), CallVersion(frame[1])))
          /\ ~Listed(fs, CallName(frame[1]), CallVersion(frame[1]))

\* The delete has removed the directory and has not yet rewritten
\* metadata.json: contains is False for a version that is still listed.
C6_Witness ==
    \E n \in Names, v \in Versions :
        /\ Deleting(n, v)
        /\ ~contains(fs, n, v)
        /\ Listed(fs, n, v)

(***************************************************************************)
(* C7  Lost update on module_list.  When an init_module rewrites           *)
(* module_list, every line another client has added since this call read   *)
(* the file is lost: the file then holds what this call read and its own   *)
(* name.  So two concurrent init_module calls for two names that both read *)
(* before either writes leave both module directories and metadata.json    *)
(* files and a module_list with the last writer's name only.               *)
(***************************************************************************)
C7_LostUpdate ==
    [][\A p \in Procs :
          /\ frame[p].op = "init_module" /\ frame[p].pc = "write_module_list"
          /\ frame'[p].pc = "return" /\ frame'[p].result = "None"
          => \A line \in Range(ModuleListLines(fs)) :
                line \notin Range(frame[p].loc.modules)
                    /\ line # CallName(frame[p]) \o "\n"
                => line \notin Range(ModuleListLines(fs'))]_vars

\* Both calls have returned, both modules are there, and module_list holds
\* one name.
C7_Witness ==
    /\ \A p \in Procs : frame[p].op = "init_module" /\ frame[p].result = "None"
    /\ CallName(frame[1]) # CallName(frame[2])
    /\ \A p \in Procs : /\ is_dir(fs, ModuleDir(CallName(frame[p])))
                        /\ HasMetadata(fs, CallName(frame[p]))
    /\ Len(ModuleListLines(fs)) = 1

(***************************************************************************)
(* C8  No cleanup when add fails.  An add that raises after it has created *)
(* the version directory hands the exception to its caller, leaves what it *)
(* created, and leaves metadata.json as it was: the version directory is   *)
(* there and the version is not listed.                                    *)
(***************************************************************************)
C8_NoCleanup ==
    [][LET c == frame'[1]
           n == CallName(c)
           v == CallVersion(c)
       IN  Called("add") /\ c.result # "None" /\ c.at \notin {"contains", "mkdir"}
           => /\ c.result \in {"FileNotFoundError", "AttributeError"}
              /\ ~is_dir(fs, VersionDir(n, v))
              /\ is_dir(fs', VersionDir(n, v))
              /\ fs.dirs \subseteq fs'.dirs
              /\ \A q \in DOMAIN fs.files : q \in DOMAIN fs'.files /\ fs'.files[q] = fs.files[q]
              /\ HasMetadata(fs', n) = HasMetadata(fs, n)
              /\ ~Listed(fs', n, v)]_vars

\* An add for an initialized module has raised on a missing patch file: the
\* version directory and the patches copied so far are there, the version is
\* not listed.
C8_Witness ==
    LET n == CallName(frame[1])
        v == CallVersion(frame[1])
    IN  /\ frame[1].op = "add" /\ frame[1].result = "FileNotFoundError"
        /\ frame[1].at = "patch"
        /\ n \in initialized
        /\ is_dir(fs, VersionDir(n, v))
        /\ joinpath(joinpath(VersionDir(n, v), "patches"), "fix.patch") \in DOMAIN fs.files
        /\ ~Listed(fs, n, v)

(***************************************************************************)
(* C9  Module presence is monotonic.  Once init_module has returned for a  *)
(* name, the module directory, its metadata.json and its module_list line  *)
(* are there after any add and delete calls.                               *)
(***************************************************************************)
C9_ModuleStaysPresent ==
    \A n \in initialized :
        /\ is_dir(fs, ModuleDir(n))
        /\ HasMetadata(fs, n)
        /\ n \o "\n" \in Range(ModuleListLines(fs))

(***************************************************************************)
(* C10  A module's metadata.json exists iff its directory exists, in every *)
(* state init_module, add and delete calls lead to.                        *)
(***************************************************************************)
C10_MetadataIffModuleDir ==
    \A n \in Names : is_dir(fs, ModuleDir(n)) <=> HasMetadata(fs, n)

(***************************************************************************)
(* What the script's Module led to in the registry.                        *)
(***************************************************************************)
\* The script's add has written the manifest of its Module's version.
ManifestPath == joinpath(VersionDir(script.module.name, script.module.version), "MODULE.bazel")

PresubmitPath == joinpath(VersionDir(script.module.name, script.module.version), "presubmit.yml")

ManifestWritten ==
    /\ script.pc \in {"done", "raised"}
    /\ frame[1].op = "add"
    /\ frame[1].at \notin {"contains", "mkdir", "module_dot_bazel"}
    /\ ManifestPath \in DOMAIN fs.files

PresubmitWritten ==
    /\ script.pc \in {"done", "raised"}
    /\ frame[1].op = "add"
    /\ frame[1].at \notin {"contains", "mkdir", "module_dot_bazel", "source", "patch",
                           "source_json", "presubmit"}
    /\ PresubmitPath \in DOMAIN fs.files

\* The manifest text the specification describes: the module header with
\* name, version and compatibility level, then one declaration for each
\* (name, version) pair of `pairs`, in that order, one per line.
ExpectedDeclaration(pair) ==
    "bazel_dep(name = \"" \o pair[1] \o "\", version = \"" \o pair[2] \o "\")"

RECURSIVE ExpectedDeclarations(_)
ExpectedDeclarations(pairs) ==
    IF pairs = <<>> THEN ""
    ELSE LET front == SubSeq(pairs, 1, Len(pairs) - 1)
         IN  (IF front = <<>> THEN "" ELSE ExpectedDeclarations(front) \o "\n")
                \o ExpectedDeclaration(pairs[Len(pairs)])

ExpectedManifest(m, pairs) ==
    "module(\n    name = \"" \o m.name \o "\",\n    version = \"" \o m.version
        \o "\",\n    compatibility_level = \"" \o ToString(m.compatibility_level)
        \o "\",\n)\n\n" \o ExpectedDeclarations(pairs)

\* The (name, version) pairs of the Module's deps, in order.
DepItems(m) == [i \in 1..Len(m.deps) |-> m.deps[i].items]

\* Two of the pairs have one name.
DuplicateDepName(pairs) ==
    \E i, j \in 1..Len(pairs) : i < j /\ pairs[i][1] = pairs[j][1]

\* The pairs with, for each name, only the last pair of that name.
LastWins(pairs) ==
    SelectSeq([i \in 1..Len(pairs) |-> <<pairs[i], \A j \in (i + 1)..Len(pairs) : pairs[j][1] # pairs[i][1]>>],
              LAMBDA e : e[2])

\* The script has just called add_dep(name, version).
AddDepCalled ==
    /\ script.pc = "input" /\ script'.pc = "input"
    /\ script'.module.deps # script.module.deps

(***************************************************************************)
(* C11  Duplicate dependency names.  As stated: add_dep with a name the    *)
(* Module already has a dependency on replaces that pair (no two pairs of  *)
(* one name are kept), and the generated manifest declares the last pair   *)
(* of each name only.                                                      *)
(***************************************************************************)
C11_Original ==
    /\ script.pc = "input" => ~DuplicateDepName(DepItems(script.module))
    /\ ManifestWritten /\ script.module.module_dot_bazel = None
       => fs.files[ManifestPath]
            = [text |-> ExpectedManifest(script.module,
                                         [i \in 1..Len(LastWins(DepItems(script.module)))
                                            |-> LastWins(DepItems(script.module))[i][1]])]

\* C11 as amended: add_dep appends; every pair is kept, in call order, and
\* the generated manifest declares every one of them, in that order, two
\* pairs of one name included.
C11_AllDepsKept ==
    [][/\ AddDepCalled
          => /\ Len(script'.module.deps) = Len(script.module.deps) + 1
             /\ SubSeq(DepItems(script'.module), 1, Len(script.module.deps))
                    = DepItems(script.module)
             /\ DepItems(script'.module)[Len(script'.module.deps)] \in DepPairs
       /\ (ManifestWritten /\ script.module.module_dot_bazel = None
              /\ DuplicateDepName(DepItems(script.module)))'
          => fs'.files[ManifestPath']
                = [text |-> ExpectedManifest(script'.module, DepItems(script'.module))]]_vars

\* add has returned for a Module with two versions of foo, both declared.
C11_Witness ==
    /\ ManifestWritten /\ script.pc = "done"
    /\ script.module.module_dot_bazel = None
    /\ DepItems(script.module) = <<<<"foo", "1.0">>, <<"foo", "2.0">>>>
    /\ fs.files[ManifestPath]
         = [text |-> ExpectedManifest(script.module, <<<<"foo", "1.0">>, <<"foo", "2.0">>>>)]

(***************************************************************************)
(* C12  Dependency rendering.  Without a manifest override the MODULE.bazel *)
(* add writes is the module header with the descriptor's name, version and *)
(* compatibility level and then one declaration for each pair of deps, in  *)
(* descriptor order, with the pair's name and version; with an override    *)
(* it is the override file, byte for byte, and nothing generated.          *)
(***************************************************************************)
C12_ManifestRendered ==
    ManifestWritten
    => IF script.module.module_dot_bazel = None
       THEN fs.files[ManifestPath]
                = [text |-> ExpectedManifest(script.module, DepItems(script.module))]
       ELSE fs.files[ManifestPath] = ExternalFiles[script.module.module_dot_bazel[1]]

\* add has returned for a Module of level 2 that depends on foo and on bar,
\* in that order.
C12_Witness ==
    /\ ManifestWritten /\ script.pc = "done"
    /\ script.module.module_dot_bazel = None
    /\ script.module.compatibility_level = 2
    /\ DepItems(script.module) = <<<<"foo", "1.0">>, <<"bar", "2.0">>>>

(***************************************************************************)
(* C13  Default presubmit fan-out.  Without a presubmit override the       *)
(* presubmit.yml add writes has the platforms linux, macos and windows and *)
(* no other; each holds build_targets, equal to the descriptor's, iff the  *)
(* descriptor has build targets, test_targets likewise, and nothing else.  *)
(***************************************************************************)
C13_PresubmitFanOut ==
    PresubmitWritten /\ script.module.presubmit_yml = None
    => LET y == fs.files[PresubmitPath]
           m == script.module
       IN  /\ DOMAIN y = {"platforms"}
           /\ DOMAIN y.platforms = {"linux", "macos", "windows"}
           /\ \A k \in DOMAIN y.platforms :
                LET t == y.platforms[k]
                IN  /\ DOMAIN t \subseteq {"build_targets", "test_targets"}
                    /\ "build_targets" \in DOMAIN t <=> m.build_targets # <<>>
                    /\ "test_targets" \in DOMAIN t <=> m.test_targets # <<>>
                    /\ "build_targets" \in DOMAIN t => t.build_targets = m.build_targets
                    /\ "test_targets" \in DOMAIN t => t.test_targets = m.test_targets

\* add has returned for a Module with a build target and no test target.
C13_Witness ==
    /\ PresubmitWritten /\ script.pc = "done"
    /\ script.module.presubmit_yml = None
    /\ script.module.build_targets = <<"//:lib">>
    /\ script.module.test_targets = <<>>
    /\ DOMAIN fs.files[PresubmitPath].platforms["linux"] = {"build_targets"}

(***************************************************************************)
(* C14  Round trip.  The Module that from_json fills from the file dump    *)
(* wrote has every attribute of the dumped Module, each with the identical *)
(* value.                                                                  *)
(***************************************************************************)
C14_RoundTrip ==
    script.pc = "loaded" => script.module = script.dumped

(***************************************************************************)
(* C15  Ordering of add's effects.  At every point of an add, and after it *)
(* has returned or raised: the presubmit config is there only if           *)
(* source.json is, source.json only if the manifest is, the manifest only  *)
(* if the version directory is, and the version is in                      *)
(* metadata.json["versions"] only if all four are there.                   *)
(***************************************************************************)
C15_MetadataLast ==
    frame[1].op = "add"
    => LET n == CallName(frame[1])
           v == CallVersion(frame[1])
           p == VersionDir(n, v)
           manifest == joinpath(p, "MODULE.bazel") \in DOMAIN fs.files
           source == joinpath(p, "source.json") \in DOMAIN fs.files
           presubmit == joinpath(p, "presubmit.yml") \in DOMAIN fs.files
       IN  /\ manifest => is_dir(fs, p)
           /\ source => manifest
           /\ presubmit => source
           /\ Listed(fs, n, v) => presubmit /\ source /\ manifest /\ is_dir(fs, p)

\* An add is about to load metadata.json: the directory and its three files
\* are written and the version is not listed yet.
C15_Witness ==
    LET n == CallName(frame[1])
        v == CallVersion(frame[1])
        p == VersionDir(n, v)
    IN  /\ frame[1].op = "add" /\ frame[1].pc = "load_metadata"
        /\ n \in initialized
        /\ joinpath(p, "MODULE.bazel") \in DOMAIN fs.files
        /\ joinpath(p, "source.json") \in DOMAIN fs.files
        /\ joinpath(p, "presubmit.yml") \in DOMAIN fs.files
        /\ ~Listed(fs, n, v)

(***************************************************************************)
(* C16  add for a module that was never initialized (no module directory)  *)
(* raises the error of a filesystem call and leaves the registry as it     *)
(* was: no directory and no file is created.                               *)
(***************************************************************************)
C16_AddUninitialized ==
    [][Called("add") /\ ~is_dir(fs, ModuleDir(CallName(frame'[1])))
       => /\ frame'[1].result \in {"FileNotFoundError", "NotADirectoryError"}
          /\ fs' = fs]_vars

(***************************************************************************)
(* C17  delete of a version whose directory does not exist raises and      *)
(* leaves the registry as it was.                                          *)
(***************************************************************************)
C17_DeleteMissing ==
    [][LET n == CallName(frame'[1])
           v == CallVersion(frame'[1])
       IN  Called("delete") /\ ~is_dir(fs, VersionDir(n, v))
           => /\ frame'[1].result # "None"
              /\ fs' = fs]_vars

\* A delete has raised for a version that is not there, in a module that has
\* another version.
C17_Witness ==
    LET n == CallName(frame[1])
        v == CallVersion(frame[1])
    IN  /\ frame[1].op = "delete" /\ frame[1].result = "FileNotFoundError"
        /\ frame[1].at = "rmtree"
        /\ n \in initialized
        /\ \E w \in Versions \ {v} : <<n, w>> \in added /\ Listed(fs, n, w)

(***************************************************************************)
(* C18  Two concurrent add calls for one (name, version).  In every        *)
(* interleaving, when both have ended at most one has returned, the other  *)
(* has raised, and no version is in metadata.json["versions"] twice.       *)
(***************************************************************************)
C18_OneAddWins ==
    /\ \A p, q \in Procs :
            /\ p # q
            /\ frame[p].op = "add" /\ frame[q].op = "add"
            /\ frame[p].pc = "return" /\ frame[q].pc = "return"
            /\ CallName(frame[p]) = CallName(frame[q])
            /\ CallVersion(frame[p]) = CallVersion(frame[q])
            => frame[p].result # "None" \/ frame[q].result # "None"
    /\ \A n \in Names : HasMetadata(fs, n) => NoDuplicates(VersionsOf(fs, n))

\* Both calls passed the contains guard; one created the directory and
\* returned, the other raised at mkdir.
C18_Witness ==
    /\ frame[1].op = "add" /\ frame[2].op = "add"
    /\ CallName(frame[1]) = CallName(frame[2])
    /\ CallVersion(frame[1]) = CallVersion(frame[2])
    /\ \E p, q \in Procs :
            /\ frame[p].pc = "return" /\ frame[p].result = "None"
            /\ frame[q].pc = "return" /\ frame[q].result = "FileExistsError"
            /\ frame[q].at = "mkdir"
    /\ VersionsOf(fs, CallName(frame[1])) = <<CallVersion(frame[1])>>

(***************************************************************************)
(* C19  The script initializes a module only when it is not initialized.   *)
(* As stated: when the module of the script's descriptor is initialized    *)
(* and the version is not there, the script goes on to add without calling *)
(* init_module, and its add leaves the version directory there and the     *)
(* version in metadata.json["versions"].                                   *)
(***************************************************************************)
C19_InitOnlyWhenNew ==
    [][LET n == script.module.name
           v == script.module.version
           ready == /\ is_dir(fs, ModuleDir(n)) /\ HasMetadata(fs, n)
                    /\ v # "" /\ ~is_dir(fs, VersionDir(n, v))
       IN  /\ script.pc \in {"dumped", "loaded"} /\ script'.pc # script.pc /\ ready
              => script'.pc = "add"
           /\ script.pc = "add" /\ script'.pc # script.pc /\ ready
              => /\ script'.pc = "done"
                 /\ is_dir(fs', VersionDir(n, v))
                 /\ Listed(fs', n, v)]_vars

(***************************************************************************)
(* C20  Frame of add and delete.  An add or delete that returns changes    *)
(* nothing outside the version directory it is about but the versions of   *)
(* that module's metadata.json, where it adds or removes that version      *)
(* only; module_list, the other modules, the module's other version        *)
(* directories, and maintainers, homepage and yanked_versions are as       *)
(* before.  yanked_versions is the empty mapping in every metadata.json.   *)
(***************************************************************************)
C20_Frame ==
    [][/\ \A m \in Names :
            HasMetadata(fs', m)
            => DOMAIN fs'.files[MetadataPath(m)].yanked_versions = {}
       /\ LET c == frame'[1]
              n == CallName(c)
              v == CallVersion(c)
              p == VersionDir(n, v)
              mp == MetadataPath(n)
          IN  (Called("add") \/ Called("delete")) /\ c.result = "None"
              => /\ {d \in fs'.dirs : ~IsPrefix(p, d)} = {d \in fs.dirs : ~IsPrefix(p, d)}
                 /\ {q \in DOMAIN fs'.files : ~IsPrefix(p, q)}
                        = {q \in DOMAIN fs.files : ~IsPrefix(p, q)}
                 /\ \A q \in DOMAIN fs.files :
                        ~IsPrefix(p, q) /\ q # mp => fs'.files[q] = fs.files[q]
                 /\ mp \in DOMAIN fs.files /\ mp \in DOMAIN fs'.files
                 /\ [fs'.files[mp] EXCEPT !.versions = <<>>]
                        = [fs.files[mp] EXCEPT !.versions = <<>>]
                 /\ Range(VersionsOf(fs', n))
                        = IF c.op = "add" THEN Range(VersionsOf(fs, n)) \cup {v}
                          ELSE Range(VersionsOf(fs, n)) \ {v}]_vars

\* A delete has returned in a registry with both modules: the other module,
\* module_list and the module's maintainers are there as init_module wrote
\* them.
C20_Witness ==
    LET n == CallName(frame[1])
    IN  /\ frame[1].op \in {"add", "delete"} /\ frame[1].result = "None"
        /\ initialized = Names
        /\ \A m \in Names :
              /\ HasMetadata(fs, m)
              /\ fs.files[MetadataPath(m)].maintainers \in MaintainerLists
              /\ fs.files[MetadataPath(m)].yanked_versions = [x \in {} |-> x]
        /\ Len(ModuleListLines(fs)) = 2

====
